---------------------------- MODULE Spec2Model ----------------------------
(***************************************************************************)
(* A model of the SAP analyzer: the answer judge of                        *)
(* src/sap_analyzer/judge.py (evaluation parser and formatter), the text   *)
(* extractor of src/sap_analyzer/extractor.py and the session controller   *)
(* of src/sap_analyzer/main.py (SAPAnalyzer and main).                     *)
(*                                                                         *)
(* A Python str is a sequence of one-character strings.  None is the       *)
(* model value None.  A Python float is an exact decimal m * 10^e with a   *)
(* sign, or nan, or an infinity; the literals of the model are short, so   *)
(* no rounding, overflow or underflow of the binary format occurs.         *)
(***************************************************************************)
EXTENDS Integers, Sequences, FiniteSets, TLC

(***************************************************************************)
(* Python str primitives                                                   *)
(***************************************************************************)

\* Python's None: a value that is no str
None == <<"None">>

\* bool(s) of a value that is a str or None
Truthy(s) == s # None /\ s # <<>>

\* str.strip() with no argument removes these (the ASCII ones the model uses).
Whitespace == {" ", "\t", "\r", "\n"}

UpperChars == <<"A","B","C","D","E","F","G","H","I","J","K","L","M",
                "N","O","P","Q","R","S","T","U","V","W","X","Y","Z">>

LowerChars == <<"a","b","c","d","e","f","g","h","i","j","k","l","m",
                "n","o","p","q","r","s","t","u","v","w","x","y","z">>

DigitChars == <<"0","1","2","3","4","5","6","7","8","9">>

Range(f) == {f[i] : i \in DOMAIN f}

IndexIn(c, seq) == CHOOSE i \in DOMAIN seq : seq[i] = c

\* str.lower() on one character
LowerChar(c) == IF c \in Range(UpperChars) THEN LowerChars[IndexIn(c, UpperChars)] ELSE c

\* str.upper() on one character
UpperChar(c) == IF c \in Range(LowerChars) THEN UpperChars[IndexIn(c, LowerChars)] ELSE c

\* str.lower()
Lower(s) == [i \in DOMAIN s |-> LowerChar(s[i])]

\* str.upper()
Upper(s) == [i \in DOMAIN s |-> UpperChar(s[i])]

\* str.capitalize(): first character upper-cased, the rest lower-cased
Capitalize(s) == [i \in DOMAIN s |-> IF i = 1 THEN UpperChar(s[i]) ELSE LowerChar(s[i])]

RECURSIVE LStrip(_)
\* str.lstrip()
LStrip(s) == IF s # <<>> /\ Head(s) \in Whitespace THEN LStrip(Tail(s)) ELSE s

RECURSIVE RStrip(_)
\* str.rstrip()
RStrip(s) ==
    IF s # <<>> /\ s[Len(s)] \in Whitespace THEN RStrip(SubSeq(s, 1, Len(s) - 1)) ELSE s

\* str.strip()
Strip(s) == RStrip(LStrip(s))

\* c in s
Contains(s, c) == \E i \in DOMAIN s : s[i] = c

\* s.find(c) + 1, for a character that occurs in s
FirstIndex(s, c) == CHOOSE i \in DOMAIN s : s[i] = c /\ \A j \in 1..(i - 1) : s[j] # c

RECURSIVE Split(_, _)
\* s.split(c): the segments between the occurrences of c (never empty: "".split(c) = [""])
Split(s, c) ==
    IF ~Contains(s, c) THEN <<s>>
    ELSE LET i == FirstIndex(s, c)
         IN  <<SubSeq(s, 1, i - 1)>> \o Split(SubSeq(s, i + 1, Len(s)), c)

\* s.split(c, 1) on a string that contains c: [before the first c, after it]
SplitOnce(s, c) ==
    LET i == FirstIndex(s, c)
    IN  <<SubSeq(s, 1, i - 1), SubSeq(s, i + 1, Len(s))>>

RECURSIVE Join(_, _)
\* sep.join(parts)
Join(sep, parts) ==
    IF parts = <<>> THEN <<>>
    ELSE IF Len(parts) = 1 THEN parts[1]
    ELSE parts[1] \o sep \o Join(sep, Tail(parts))

(***************************************************************************)
(* Python float(str)                                                       *)
(***************************************************************************)

\* the int 0 the parser stores when float() raises
IntZero == [kind |-> "int", neg |-> FALSE, m |-> 0, e |-> 0]

\* float() raised ValueError
FloatError == [kind |-> "ValueError", neg |-> FALSE, m |-> 0, e |-> 0]

FloatNan == [kind |-> "nan", neg |-> FALSE, m |-> 0, e |-> 0]

FloatInf(neg) == [kind |-> "inf", neg |-> neg, m |-> 0, e |-> 0]

RECURSIVE Normalise(_, _, _)
\* the float m * 10^e, with m not a multiple of 10 unless it is 0
Normalise(neg, m, e) ==
    IF m = 0 THEN [kind |-> "float", neg |-> neg, m |-> 0, e |-> 0]
    ELSE IF m % 10 = 0 THEN Normalise(neg, m \div 10, e + 1)
    ELSE [kind |-> "float", neg |-> neg, m |-> m, e |-> e]

IsDigit(c) == c \in Range(DigitChars)

DigitVal(c) == IndexIn(c, DigitChars) - 1

\* digitpart: digits, single underscores allowed between two digits
IsDigitPart(s) ==
    /\ s # <<>>
    /\ \A i \in DOMAIN s : IsDigit(s[i]) \/ s[i] = "_"
    /\ IsDigit(s[1]) /\ IsDigit(s[Len(s)])
    /\ \A i \in 1..(Len(s) - 1) : ~(s[i] = "_" /\ s[i + 1] = "_")

RECURSIVE DigitsValue(_, _)
\* the value of a digitpart, most significant digit first, acc the value so far
DigitsValue(s, acc) ==
    IF s = <<>> THEN acc
    ELSE IF Head(s) = "_" THEN DigitsValue(Tail(s), acc)
    ELSE DigitsValue(Tail(s), 10 * acc + DigitVal(Head(s)))

\* the number of digits of a digitpart (underscores do not count)
DigitCount(s) == Cardinality({i \in DOMAIN s : IsDigit(s[i])})

HasSign(s) == s # <<>> /\ Head(s) \in {"+", "-"}

Unsigned(s) == IF HasSign(s) THEN Tail(s) ELSE s

\* [sign] digitpart, as an exponent
IsExponent(s) == IsDigitPart(Unsigned(s))

ExponentValue(s) ==
    LET v == DigitsValue(Unsigned(s), 0)
    IN  IF HasSign(s) /\ Head(s) = "-" THEN 0 - v ELSE v

\* digitpart ["." [digitpart]] | "." digitpart
IsMantissa(s) ==
    IF Contains(s, ".")
    THEN LET p == SplitOnce(s, ".")
         IN  /\ p[1] = <<>> \/ IsDigitPart(p[1])
             /\ p[2] = <<>> \/ IsDigitPart(p[2])
             /\ p[1] # <<>> \/ p[2] # <<>>
    ELSE IsDigitPart(s)

\* float(s): the text is stripped; [sign] (inf | infinity | nan), in any letter
\* case, or [sign] mantissa [(e|E) exponent]; anything else raises ValueError.
FloatOfStr(s) ==
    LET t    == Strip(s)
        neg  == HasSign(t) /\ Head(t) = "-"
        body == Unsigned(t)
        low  == Lower(body)
        hasE == Contains(low, "e")
        man  == IF hasE THEN SplitOnce(low, "e")[1] ELSE low
        ex   == IF hasE THEN SplitOnce(low, "e")[2] ELSE <<>>
        ip   == IF Contains(man, ".") THEN SplitOnce(man, ".")[1] ELSE man
        fp   == IF Contains(man, ".") THEN SplitOnce(man, ".")[2] ELSE <<>>
    IN  IF low \in {<<"i","n","f">>, <<"i","n","f","i","n","i","t","y">>} THEN FloatInf(neg)
        ELSE IF low = <<"n","a","n">> THEN FloatNan
        ELSE IF IsMantissa(man) /\ (hasE => IsExponent(ex))
        THEN Normalise(neg, DigitsValue(ip \o fp, 0),
                       (IF hasE THEN ExponentValue(ex) ELSE 0) - DigitCount(fp))
        ELSE FloatError

(***************************************************************************)
(* AnswerJudge (judge.py)                                                  *)
(***************************************************************************)

K_relevance     == <<"r","e","l","e","v","a","n","c","e">>
K_accuracy      == <<"a","c","c","u","r","a","c","y">>
K_completeness  == <<"c","o","m","p","l","e","t","e","n","e","s","s">>
K_clarity       == <<"c","l","a","r","i","t","y">>
K_specificity   == <<"s","p","e","c","i","f","i","c","i","t","y">>
K_documentation == <<"d","o","c","u","m","e","n","t","a","t","i","o","n">>
K_overall       == <<"o","v","e","r","a","l","l">>
K_overall_score == <<"o","v","e","r","a","l","l"," ","s","c","o","r","e">>
K_strengths     == <<"s","t","r","e","n","g","t","h","s">>
K_areas         == <<"a","r","e","a","s"," ","f","o","r"," ",
                     "i","m","p","r","o","v","e","m","e","n","t">>
K_comments      == <<"c","o","m","m","e","n","t","s">>
K_improvements  == <<"i","m","p","r","o","v","e","m","e","n","t","s">>

\* self.criteria: the keys of the dict, in insertion order
criteria ==
    <<K_relevance, K_accuracy, K_completeness, K_clarity, K_specificity, K_documentation>>

\* the dict d with d[key] = value
DictSet(d, key, value) ==
    [k \in (DOMAIN d) \cup {key} |-> IF k = key THEN value ELSE d[k]]

\* the empty dict
EmptyDict == [k \in {} |-> IntZero]

\* an exception, as the value of the expression that raised it
Exception(name) == [kind |-> name, neg |-> FALSE, m |-> 0, e |-> 0]

IsException(v) == v.kind \notin {"int", "float", "nan", "inf"}

\* float(value.split('/')[0])
ScoreExpression(value) ==
    LET parts == Split(value, "/")
    IN  IF Len(parts) < 1 THEN Exception("IndexError") ELSE FloatOfStr(parts[1])

\* ScoreOfValue whose except clause catches nothing
ScoreOfValue_NoCatch(value) == ScoreExpression(value)

\* try: score = float(value.split('/')[0])  except (ValueError, IndexError): 0
ScoreOfValue(value) ==
    LET f == ScoreExpression(value)
    IN  IF f.kind \in {"ValueError", "IndexError"} THEN IntZero ELSE f

\* StoreScore that keeps the score a key already has
StoreScore_KeepFirst(p, key, value) ==
    LET v == ScoreOfValue(value)
    IN  IF IsException(v) THEN [p EXCEPT !.raised = v.kind]
        ELSE IF key \in DOMAIN p.scores THEN p
        ELSE [p EXCEPT !.scores = DictSet(p.scores, key, v)]

\* scores[key] = the score of value; an exception the try does not catch leaves the loop
StoreScore(p, key, value) ==
    LET v == ScoreOfValue(value)
    IN  IF IsException(v) THEN [p EXCEPT !.raised = v.kind]
        ELSE [p EXCEPT !.scores = DictSet(p.scores, key, v)]

\* the locals of _parse_evaluation as it starts its loop
ParseLocals0 ==
    [scores |-> EmptyDict, strengths |-> <<>>, improvements |-> <<>>,
     comments |-> <<>>, current_section |-> None, raised |-> "none"]

\* ParseKeyLine that compares the key as it is written, not lower-cased
ParseKeyLine_NoLower(p, line) ==
    LET kv    == SplitOnce(line, ":")
        key   == Strip(kv[1])
        value == Strip(kv[2])
    IN  IF key \in Range(criteria) THEN StoreScore(p, key, value)
        ELSE IF key = K_strengths THEN [p EXCEPT !.current_section = K_strengths]
        ELSE IF key = K_areas THEN [p EXCEPT !.current_section = K_improvements]
        ELSE IF key = K_comments THEN [p EXCEPT !.current_section = K_comments]
        ELSE IF key = K_overall_score THEN StoreScore(p, K_overall, value)
        ELSE p

\* ParseKeyLine that takes any key with a numeric value for a score
ParseKeyLine_AnyKey(p, line) ==
    LET kv    == SplitOnce(line, ":")
        key   == Lower(Strip(kv[1]))
        value == Strip(kv[2])
    IN  IF key = K_strengths THEN [p EXCEPT !.current_section = K_strengths]
        ELSE IF key = K_areas THEN [p EXCEPT !.current_section = K_improvements]
        ELSE IF key = K_comments THEN [p EXCEPT !.current_section = K_comments]
        ELSE StoreScore(p, key, value)

\* ParseKeyLine in which a line that writes a score closes the open section
ParseKeyLine_ScoreClosesSection(p, line) ==
    LET kv    == SplitOnce(line, ":")
        key   == Lower(Strip(kv[1]))
        value == Strip(kv[2])
    IN  IF key \in Range(criteria)
        THEN [StoreScore(p, key, value) EXCEPT !.current_section = None]
        ELSE IF key = K_strengths THEN [p EXCEPT !.current_section = K_strengths]
        ELSE IF key = K_areas THEN [p EXCEPT !.current_section = K_improvements]
        ELSE IF key = K_comments THEN [p EXCEPT !.current_section = K_comments]
        ELSE IF key = K_overall_score
        THEN [StoreScore(p, K_overall, value) EXCEPT !.current_section = None]
        ELSE p

\* ParseKeyLine that files the text a section label line carries after its colon
ParseKeyLine_InlineTextKept(p, line) ==
    LET kv    == SplitOnce(line, ":")
        key   == Lower(Strip(kv[1]))
        value == Strip(kv[2])
        more(l) == IF value = <<>> THEN l ELSE Append(l, value)
    IN  IF key \in Range(criteria)
        THEN StoreScore(p, key, value)
        ELSE IF key = K_strengths
        THEN [p EXCEPT !.current_section = K_strengths, !.strengths = more(@)]
        ELSE IF key = K_areas
        THEN [p EXCEPT !.current_section = K_improvements, !.improvements = more(@)]
        ELSE IF key = K_comments
        THEN [p EXCEPT !.current_section = K_comments, !.comments = more(@)]
        ELSE IF key = K_overall_score
        THEN StoreScore(p, K_overall, value)
        ELSE p

\* the branch of the loop body for a line that contains a colon
ParseKeyLine(p, line) ==
    LET kv    == SplitOnce(line, ":")
        key   == Lower(Strip(kv[1]))
        value == Strip(kv[2])
    IN  IF key \in Range(criteria)
        THEN StoreScore(p, key, value)
        ELSE IF key = K_strengths THEN [p EXCEPT !.current_section = K_strengths]
        ELSE IF key = K_areas THEN [p EXCEPT !.current_section = K_improvements]
        ELSE IF key = K_comments THEN [p EXCEPT !.current_section = K_comments]
        ELSE IF key = K_overall_score
        THEN StoreScore(p, K_overall, value)
        ELSE p

\* ParseContentLine that files a line read before any section label under comments
ParseContentLine_DefaultComments(p, line) ==
    IF p.current_section = K_strengths
    THEN [p EXCEPT !.strengths = Append(p.strengths, line)]
    ELSE IF p.current_section = K_improvements
    THEN [p EXCEPT !.improvements = Append(p.improvements, line)]
    ELSE [p EXCEPT !.comments = Append(p.comments, line)]

\* the branch of the loop body for a line without a colon
ParseContentLine(p, line) ==
    IF p.current_section = K_strengths
    THEN [p EXCEPT !.strengths = Append(p.strengths, line)]
    ELSE IF p.current_section = K_improvements
    THEN [p EXCEPT !.improvements = Append(p.improvements, line)]
    ELSE IF p.current_section = K_comments
    THEN [p EXCEPT !.comments = Append(p.comments, line)]
    ELSE p

\* ParseLine that does not trim the line it files
ParseLine_NoStrip(p, raw) ==
    LET line == Strip(raw)
    IN  IF line = <<>> THEN p
        ELSE IF Contains(line, ":") THEN ParseKeyLine(p, line)
        ELSE ParseContentLine(p, raw)

\* one iteration of "for line in lines" on the raw line
ParseLine(p, raw) ==
    LET line == Strip(raw)
    IN  IF line = <<>> THEN p
        ELSE IF Contains(line, ":") THEN ParseKeyLine(p, line)
        ELSE ParseContentLine(p, line)

\* the dict _parse_evaluation returns
ParseResult(p) ==
    [scores |-> p.scores, strengths |-> p.strengths,
     improvements |-> p.improvements, comments |-> p.comments]

\* the dict evaluate_answer returns when an Exception was raised
ErrorRecord(msg) ==
    [scores |-> EmptyDict, strengths |-> <<>>, improvements |-> <<>>,
     comments |-> <<>>, error |-> msg]

(***************************************************************************)
(* str(float): the text an f-string renders for a score                    *)
(***************************************************************************)

RECURSIVE Digits(_)
\* str(n) for an int n >= 0
Digits(n) == IF n < 10 THEN <<DigitChars[n + 1]>> ELSE Digits(n \div 10) \o <<DigitChars[(n % 10) + 1]>>

RECURSIVE Pow10(_)
Pow10(k) == IF k = 0 THEN 1 ELSE 10 * Pow10(k - 1)

RECURSIVE Zeros(_)
Zeros(k) == IF k = 0 THEN <<>> ELSE <<"0">> \o Zeros(k - 1)

\* repr of a finite float m * 10^e (m normalised): fixed notation when the decimal
\* exponent is in -4..15, else d[.ddd]e+XX
FiniteRepr(m, e) ==
    LET ds  == Digits(m)
        n   == Len(ds)
        x   == e + n - 1
        ax  == IF x < 0 THEN 0 - x ELSE x
    IN  IF m = 0 THEN <<"0", ".", "0">>
        ELSE IF x < (0 - 4) \/ x >= 16
        THEN <<ds[1]>> \o (IF n > 1 THEN <<".">> \o SubSeq(ds, 2, n) ELSE <<>>)
             \o <<"e", IF x < 0 THEN "-" ELSE "+">>
             \o (IF ax < 10 THEN <<"0">> ELSE <<>>) \o Digits(ax)
        ELSE IF e >= 0 THEN ds \o Zeros(e) \o <<".", "0">>
        ELSE IF n > 0 - e
        THEN SubSeq(ds, 1, n + e) \o <<".">> \o SubSeq(ds, n + e + 1, n)
        ELSE <<"0", ".">> \o Zeros((0 - e) - n) \o ds

\* f"{score}": str of the stored score (a float, or the int 0)
ScoreRepr(v) ==
    IF v.kind = "int" THEN Digits(v.m)
    ELSE IF v.kind = "nan" THEN <<"n","a","n">>
    ELSE (IF v.neg THEN <<"-">> ELSE <<>>)
         \o (IF v.kind = "inf" THEN <<"i","n","f">> ELSE FiniteRepr(v.m, v.e))

(***************************************************************************)
(* AnswerJudge.format_evaluation                                           *)
(***************************************************************************)

EvaluationHeader ==
    <<"\n","-","-","-"," ","E","v","a","l","u","a","t","i","o","n"," ","-","-","-">>

OverallLabel == <<"\n","O","v","e","r","a","l","l"," ","S","c","o","r","e",":"," ">>

StrengthsLabel == <<"\n","S","t","r","e","n","g","t","h","s",":">>

ImprovementsLabel ==
    <<"\n","A","r","e","a","s"," ","f","o","r"," ",
      "I","m","p","r","o","v","e","m","e","n","t",":">>

CommentsLabel == <<"\n","C","o","m","m","e","n","t","s",":">>

\* FormatCriteria that shows a criterion without a score as 0
RECURSIVE FormatCriteria_ZeroForAbsent(_, _)
FormatCriteria_ZeroForAbsent(scores, i) ==
    IF i > Len(criteria) THEN <<>>
    ELSE <<Capitalize(criteria[i]) \o <<":", " ">>
           \o (IF criteria[i] \in DOMAIN scores THEN ScoreRepr(scores[criteria[i]])
               ELSE <<"0">>)
           \o <<"/", "5">>>>
         \o FormatCriteria_ZeroForAbsent(scores, i + 1)

\* the output entries for the criteria at positions i.. of self.criteria
RECURSIVE FormatCriteria(_, _)
FormatCriteria(scores, i) ==
    IF i > Len(criteria) THEN <<>>
    ELSE (IF criteria[i] \in DOMAIN scores
          THEN <<Capitalize(criteria[i]) \o <<":", " ">>
                 \o ScoreRepr(scores[criteria[i]]) \o <<"/", "5">>>>
          ELSE <<>>)
         \o FormatCriteria(scores, i + 1)

\* FormatSection that renders the label of an empty section too
FormatSection_AlwaysLabel(label, items) ==
    <<label>> \o [i \in DOMAIN items |-> <<"-", " ">> \o items[i]]

\* a section of the output: its label and one "- item" entry per item, or nothing
FormatSection(label, items) ==
    IF items = <<>> THEN <<>>
    ELSE <<label>> \o [i \in DOMAIN items |-> <<"-", " ">> \o items[i]]

\* the list "output" of format_evaluation, before the join
FormatOutput(evaluation) ==
    <<EvaluationHeader>>
    \o FormatCriteria(evaluation.scores, 1)
    \o (IF K_overall \in DOMAIN evaluation.scores
        THEN <<OverallLabel \o ScoreRepr(evaluation.scores[K_overall]) \o <<"/", "5">>>>
        ELSE <<>>)
    \o FormatSection(StrengthsLabel, evaluation.strengths)
    \o FormatSection(ImprovementsLabel, evaluation.improvements)
    \o FormatSection(CommentsLabel, evaluation.comments)

\* format_evaluation(evaluation)
format_evaluation(evaluation) == Join(<<"\n">>, FormatOutput(evaluation))

(***************************************************************************)
(* AnswerJudge._create_evaluation_prompt                                   *)
(***************************************************************************)

\* the indentation the lines of the prompt have in the source
PromptIndent == <<" "," "," "," "," "," "," "," ">>

\* self.criteria: the descriptions, in the order of the keys
criteria_descriptions ==
    << <<"H","o","w"," ","w","e","l","l"," ","d","o","e","s"," ","t","h","e"," ","a","n","s","w",
         "e","r"," ","a","d","d","r","e","s","s"," ","t","h","e"," ","q","u","e","s","t","i","o",
         "n","?">>,
       <<"H","o","w"," ","a","c","c","u","r","a","t","e"," ","i","s"," ","t","h","e"," ","i","n",
         "f","o","r","m","a","t","i","o","n"," ","p","r","o","v","i","d","e","d","?">>,
       <<"H","o","w"," ","c","o","m","p","r","e","h","e","n","s","i","v","e"," ","i","s"," ","t",
         "h","e"," ","a","n","s","w","e","r","?">>,
       <<"H","o","w"," ","c","l","e","a","r"," ","a","n","d"," ","w","e","l","l","-","s","t","r",
         "u","c","t","u","r","e","d"," ","i","s"," ","t","h","e"," ","r","e","s","p","o","n","s",
         "e","?">>,
       <<"H","o","w"," ","s","p","e","c","i","f","i","c"," ","a","n","d"," ","d","e","t","a","i",
         "l","e","d"," ","i","s"," ","t","h","e"," ","a","n","s","w","e","r","?">>,
       <<"H","o","w"," ","w","e","l","l"," ","i","s"," ","t","h","e"," ","a","n","s","w","e","r",
         " ","s","u","p","p","o","r","t","e","d"," ","b","y"," ","t","h","e"," ","d","o","c","u",
         "m","e","n","t","?">> >>

\* the output format the prompt asks for, lines 73-82
PromptFormatLines ==
    << <<"R","e","l","e","v","a","n","c","e",":"," ","[","s","c","o","r","e","]","/","5">>,
       <<"A","c","c","u","r","a","c","y",":"," ","[","s","c","o","r","e","]","/","5">>,
       <<"C","o","m","p","l","e","t","e","n","e","s","s",":"," ","[","s","c","o","r","e","]","/",
         "5">>,
       <<"C","l","a","r","i","t","y",":"," ","[","s","c","o","r","e","]","/","5">>,
       <<"S","p","e","c","i","f","i","c","i","t","y",":"," ","[","s","c","o","r","e","]","/","5">>,
       <<"D","o","c","u","m","e","n","t","a","t","i","o","n",":"," ","[","s","c","o","r","e","]",
         "/","5">>,
       <<"O","v","e","r","a","l","l"," ","S","c","o","r","e",":"," ","[","a","v","e","r","a","g",
         "e","]","/","5">>,
       <<"S","t","r","e","n","g","t","h","s",":"," ","[","l","i","s","t"," ","k","e","y"," ","s",
         "t","r","e","n","g","t","h","s","]">>,
       <<"A","r","e","a","s"," ","f","o","r"," ","I","m","p","r","o","v","e","m","e","n","t",":",
         " ","[","l","i","s","t"," ","a","r","e","a","s"," ","t","h","a","t"," ","c","o","u","l",
         "d"," ","b","e"," ","i","m","p","r","o","v","e","d","]">>,
       <<"C","o","m","m","e","n","t","s",":"," ","[","s","p","e","c","i","f","i","c"," ","f","e",
         "e","d","b","a","c","k","]">> >>

\* the text of lines 57-65
PromptHead(question, answer, context) ==
    Join(<<"\n">>,
         << <<>>,
            PromptIndent \o
            <<"E","v","a","l","u","a","t","e"," ","t","h","e"," ","f","o","l","l","o","w","i","n",
              "g"," ", "Q","&","A"," ","p","a","i","r"," ","f","o","r"," ","a"," ","S","t","a",
              "t","i","s","t","i", "c","a","l"," ","A","n","a","l","y","s","i","s"," ","P","l",
              "a","n"," ","(","S","A","P",")", ":">>,
            <<>>,
            PromptIndent \o <<"Q","u","e","s","t","i","o","n",":"," ">> \o question,
            PromptIndent \o <<"A","n","s","w","e","r",":"," ">> \o answer,
            PromptIndent \o (IF Truthy(context)
                             THEN <<"C","o","n","t","e","x","t",":"," ">> \o context
                             ELSE <<>>),
            <<>>,
            PromptIndent \o
            <<"P","l","e","a","s","e"," ","e","v","a","l","u","a","t","e"," ","b","a","s","e","d",
              " ","o", "n"," ","t","h","e","s","e"," ","c","r","i","t","e","r","i","a",":">>,
            PromptIndent >>)

RECURSIVE PromptCriteria(_)
\* what the loop of lines 67-68 adds for the criteria at positions i..
PromptCriteria(i) ==
    IF i > Len(criteria) THEN <<>>
    ELSE <<"\n">> \o Capitalize(criteria[i]) \o <<" ","(","1","-","5",")",":"," ">>
         \o criteria_descriptions[i] \o PromptCriteria(i + 1)

\* the text of lines 70-83
PromptTail ==
    Join(<<"\n">>,
         << <<>>, PromptIndent,
            PromptIndent \o
            <<"P","r","o","v","i","d","e"," ","y","o","u","r"," ","e","v","a","l","u","a","t","i",
              "o","n", " ","i","n"," ","t","h","i","s"," ","f","o","r","m","a","t",":">> >>
         \o [i \in DOMAIN PromptFormatLines |-> PromptIndent \o PromptFormatLines[i]]
         \o << PromptIndent >>)

\* _create_evaluation_prompt(question, answer, context)
create_evaluation_prompt(question, answer, context) ==
    PromptHead(question, answer, context) \o PromptCriteria(1) \o PromptTail


(***************************************************************************)
(* extract_text_from_pdf (extractor.py)                                    *)
(*                                                                         *)
(* A file is [exists, is_pdf, pages, fail_page]: whether the path exists,  *)
(* whether its name ends in ".pdf", what extract_text() gives for each     *)
(* page (a str or None), and the page at which pdfplumber raises (0: it    *)
(* never does; 1 also stands for pdfplumber.open raising).                 *)
(***************************************************************************)

\* max_chars: int = 8000
max_chars_default == 8000

Return(v) == [kind |-> "return", value |-> v, exc |-> "none"]

Raise(e) == [kind |-> "raise", value |-> None, exc |-> e]

RECURSIVE ExtractPages(_, _, _, _, _)
\* the loop over pdf.pages from page i on, text the text accumulated so far
ExtractPages(pages, i, text, max_chars, fail_page) ==
    IF i > Len(pages) THEN [kind |-> "text", text |-> text, read |-> i - 1]
    ELSE IF i = fail_page THEN [kind |-> "raised", text |-> text, read |-> i]
    ELSE LET text2 == IF Truthy(pages[i]) THEN text \o pages[i] \o <<"\n">> ELSE text
         IN  IF Len(text2) >= max_chars
             THEN [kind |-> "text", text |-> text2, read |-> i]
             ELSE ExtractPages(pages, i + 1, text2, max_chars, fail_page)

\* text[:max_chars]
Prefix(text, n) == SubSeq(text, 1, IF n < Len(text) THEN n ELSE Len(text))

\* What a call can give.  When pdfplumber raises, the handlers of lines 51-56 are
\* tried: "except pdfplumber.PDFSyntaxError" is evaluated first, and a pdfplumber
\* that exports no such name makes that raise AttributeError out of the function;
\* with one that does, the function returns None.
extract_text_from_pdf(file, max_chars) ==
    IF ~file.exists THEN {Return(None)}
    ELSE LET r == ExtractPages(file.pages, 1, <<>>, max_chars, file.fail_page)
         IN  IF r.kind = "raised" THEN {Return(None), Raise("AttributeError")}
             ELSE IF r.text = <<>> THEN {Return(None)}
             ELSE {Return(Prefix(r.text, max_chars))}

(***************************************************************************)
(* SAPAnalyzer._generate_qa_response (main.py): the context of the prompt  *)
(***************************************************************************)

\* self.max_length = 2048
max_length == 2048

\* self.chunk_size = 1024
chunk_size == 1024

RECURSIVE Chunks(_, _)
\* [context[i:i+size] for i in range(0, len(context), size)]
Chunks(context, size) ==
    IF context = <<>> THEN <<>>
    ELSE IF Len(context) <= size THEN <<context>>
    ELSE <<SubSeq(context, 1, size)>> \o Chunks(SubSeq(context, size + 1, Len(context)), size)

\* PromptContext that cuts a context of exactly maxlen tokens too
PromptContext_AtLeast(context, n_tokens, maxlen, size) ==
    IF n_tokens >= maxlen
    THEN LET chunks == Chunks(context, size)
         IN  Join(<<" ">>, SubSeq(chunks, 1, IF Len(chunks) < 2 THEN Len(chunks) ELSE 2))
    ELSE context

\* the context the prompt embeds, n_tokens being len(self.tokenizer.encode(context))
PromptContext(context, n_tokens, maxlen, size) ==
    IF n_tokens > maxlen
    THEN LET chunks == Chunks(context, size)
         IN  Join(<<" ">>, SubSeq(chunks, 1, IF Len(chunks) < 2 THEN Len(chunks) ELSE 2))
    ELSE context

(***************************************************************************)
(* Bounds and inputs                                                       *)
(***************************************************************************)

\* lines of an evaluation text the judge is given on its own
MaxLines == 3

\* answer_question calls of one session
MaxTurns == 2

\* process_document calls of a client of SAPAnalyzer
MaxLoads == 2

\* the files a path can name
Files ==
    { [exists |-> FALSE, is_pdf |-> TRUE,  pages |-> <<>>, fail_page |-> 0],
      [exists |-> TRUE,  is_pdf |-> FALSE, pages |-> <<<<"S","A","P">>>>, fail_page |-> 0],
      [exists |-> TRUE,  is_pdf |-> TRUE,  pages |-> <<<<>>, None>>, fail_page |-> 0],
      [exists |-> TRUE,  is_pdf |-> TRUE,  pages |-> <<<<"S","A","P">>>>, fail_page |-> 1],
      [exists |-> TRUE,  is_pdf |-> TRUE,  pages |-> <<<<"S","A","P">>, <<>>, <<"v","1">>>>,
       fail_page |-> 0],
      [exists |-> TRUE,  is_pdf |-> TRUE,  pages |-> <<<<"C","T","R">>>>, fail_page |-> 0] }

\* what input() returns
InputLines ==
    { <<"e","x","i","t">>, <<" ","E","x","i","t"," ">>, <<>>, <<" "," ">>,
      <<"q","?">>, <<" ","w","h","y"," ">> }

\* the questions a client of SAPAnalyzer asks
ClientQuestions == { <<"q","?">>, <<>> }

\* the texts the generation pipeline gives for the answer prompt
QaTexts == { <<>>, <<" ","\n">>, <<" ","y","e","s","\n">>, <<"n","o">> }

\* the texts the generation pipeline gives for the evaluation prompt in a session
SessionTexts ==
    { <<>>,
      <<"R","e","l","e","v","a","n","c","e",":"," ","4","/","5","\n",
        "A","c","c","u","r","a","c","y",":"," ","5","/","5","\n",
        "O","v","e","r","a","l","l"," ","S","c","o","r","e",":"," ","4",".","5","/","5","\n",
        "S","t","r","e","n","g","t","h","s",":","\n",
        "C","l","e","a","r"," ","s","t","r","u","c","t","u","r","e","\n",
        "C","o","m","m","e","n","t","s",":","\n",
        "W","e","l","l"," ","d","o","c","u","m","e","n","t","e","d">>,
      <<"G","o","o","d"," ","a","n","s","w","e","r",".","\n","S","c","o","r","e",":"," ","5">>,
      <<"S","t","r","e","n","g","t","h","s",":","\n","o","k","\n",
        "A","r","e","a","s"," ","f","o","r"," ","I","m","p","r","o","v","e","m","e","n","t",":","\n",
        "m","o","r","e"," ","d","e","t","a","i","l">>,
      <<"C","l","a","r","i","t","y",":"," ","n","/","a">> }

\* the lines of the evaluation texts the judge is given on its own
JudgeLines ==
    { <<"R","e","l","e","v","a","n","c","e",":"," ","4","/","5">>,
      <<" "," ","a","c","c","u","r","a","c","y"," ",":"," ","4",".","5","/","5"," ">>,
      <<"R","e","l","e","v","a","n","c","e",":"," ","N","/","A","/","5">>,
      <<"A","c","c","u","r","a","c","y",":">>,
      <<"R","e","l","e","v","a","n","c","e",":"," ","9","/","5">>,
      <<"A","c","c","u","r","a","c","y",":"," ","-","1","/","5">>,
      <<"C","l","a","r","i","t","y",":"," ","n","a","n","/","5">>,
      <<"O","v","e","r","a","l","l"," ","S","c","o","r","e",":"," ","4",".","5","/","5">>,
      <<"O","V","E","R","A","L","L"," ","S","C","O","R","E",":"," ","n","/","a">>,
      <<"S","t","r","e","n","g","t","h","s",":">>,
      <<"A","r","e","a","s"," ","f","o","r"," ","I","m","p","r","o","v","e","m","e","n","t",":">>,
      <<"c","o","m","m","e","n","t","s"," ",":">>,
      <<"C","l","e","a","r">>,
      <<" "," ","W","e","l","l"," ","d","o","n","e","\t">>,
      <<" "," ">>,
      <<"N","o","t","e",":"," ","o","k">>,
      <<"S","t","r","e","n","g","t","h","s",":"," ","g","o","o","d">> }

\* the evaluation texts of at most MaxLines lines of JudgeLines
JudgeTexts ==
    { Join(<<"\n">>, ls) : ls \in UNION { [1..n -> JudgeLines] : n \in 0..MaxLines } }

\* the score labels of the output format _create_evaluation_prompt asks for
\* (lines 73-79), in its order
TemplateLabels ==
    <<<<"R","e","l","e","v","a","n","c","e">>,
      <<"A","c","c","u","r","a","c","y">>,
      <<"C","o","m","p","l","e","t","e","n","e","s","s">>,
      <<"C","l","a","r","i","t","y">>,
      <<"S","p","e","c","i","f","i","c","i","t","y">>,
      <<"D","o","c","u","m","e","n","t","a","t","i","o","n">>,
      <<"O","v","e","r","a","l","l"," ","S","c","o","r","e">>>>

\* its three section lines (lines 80-82)
TemplateSectionLines ==
    <<<<"S","t","r","e","n","g","t","h","s",":"," ","[","l","i","s","t"," ","k","e","y"," ",
        "s","t","r","e","n","g","t","h","s","]">>,
      <<"A","r","e","a","s"," ","f","o","r"," ","I","m","p","r","o","v","e","m","e","n","t",":",
        " ","[","l","i","s","t"," ","a","r","e","a","s"," ","t","h","a","t"," ","c","o","u","l","d",
        " ","b","e"," ","i","m","p","r","o","v","e","d","]">>,
      <<"C","o","m","m","e","n","t","s",":"," ","[","s","p","e","c","i","f","i","c"," ",
        "f","e","e","d","b","a","c","k","]">>>>

\* numeric literals a score line can carry, each with the number it denotes, m * 10^e
TemplateNumbers ==
    { [lit |-> <<"5">>, m |-> 5, e |-> 0],
      [lit |-> <<"4",".","0">>, m |-> 4, e |-> 0],
      [lit |-> <<"3",".","7","5">>, m |-> 375, e |-> 0 - 2] }

LetterCases == {"as written", "lower", "upper"}

InCase(c, s) == IF c = "lower" THEN Lower(s) ELSE IF c = "upper" THEN Upper(s) ELSE s

\* the indentation the template has in the prompt
TemplateIndent == <<" "," "," "," "," "," "," "," ">>

\* "<Label>: <n>/5"
TemplateLine(label, c, lit) == InCase(c, label) \o <<":", " ">> \o lit \o <<"/", "5">>

\* how a text is laid out: the letter case of its labels, whether its lines are
\* indented, whether its score lines come in the reverse of the template's order
TemplateShapes ==
    { [c |-> "as written", indent |-> FALSE, rev |-> FALSE],
      [c |-> "lower", indent |-> TRUE, rev |-> FALSE],
      [c |-> "upper", indent |-> TRUE, rev |-> TRUE] }

\* the texts that follow the template: the seven score lines, each with a numeric
\* literal, then the three section lines, in one of the shapes
TemplateTexts ==
    { Join(<<"\n">>,
           [i \in 1..(Len(TemplateLabels) + Len(TemplateSectionLines)) |->
               (IF sh.indent THEN TemplateIndent ELSE <<>>)
               \o (IF i <= Len(TemplateLabels)
                   THEN LET k == IF sh.rev THEN Len(TemplateLabels) + 1 - i ELSE i
                        IN  TemplateLine(TemplateLabels[k], sh.c, ns[k].lit)
                   ELSE TemplateSectionLines[i - Len(TemplateLabels)])]) :
        ns \in [1..Len(TemplateLabels) -> TemplateNumbers], sh \in TemplateShapes }

\* "I couldn't generate a response. Please try rephrasing your question."
FallbackMessage ==
    <<"I"," ","c","o","u","l","d","n","'","t"," ","g","e","n","e","r","a","t","e"," ",
      "a"," ","r","e","s","p","o","n","s","e","."," ","P","l","e","a","s","e"," ",
      "t","r","y"," ","r","e","p","h","r","a","s","i","n","g"," ","y","o","u","r"," ",
      "q","u","e","s","t","i","o","n",".">>

(***************************************************************************)
(* State                                                                   *)
(***************************************************************************)

VARIABLES
    caller,          \* who drives: "main" (main()), "client" (code that uses a
                     \* SAPAnalyzer), "judge" (code that uses an AnswerJudge alone)
    pc,              \* the statement about to run
    pdf_path,        \* the file the path of process_document names
    extract_out,     \* what the last extract_text_from_pdf call gave
    extracted_text,  \* SAPAnalyzer.extracted_text
    pd_ret,          \* what the last process_document returned
    question,        \* the question of the turn
    prompt_context,  \* the context embedded in the answer prompt of the turn
    n_tokens,        \* len(self.tokenizer.encode(context)) in _generate_qa_response
    answer,          \* answer_question's local "answer" (None: not bound)
    evaluation_prompt, \* evaluate_answer's local "evaluation_prompt"
    evaluation,      \* evaluate_answer's local "evaluation" (the generated text)
    lines,           \* _parse_evaluation's "lines"
    lineno,          \* how many of them the loop has consumed
    p,               \* _parse_evaluation's other locals
    record,          \* the dict evaluate_answer returned
    aq_ret,          \* how the last answer_question call ended
    printed,         \* the last message printed or logged
    calls,           \* the calls made by the answer_question call under way, in order
    turns,           \* answer_question calls so far
    loads            \* process_document calls so far

vars == <<caller, pc, pdf_path, extract_out, extracted_text, pd_ret, question,
          prompt_context, n_tokens, answer, evaluation_prompt, evaluation, lines, lineno, p,
          record, aq_ret,
          printed, calls, turns, loads>>

judgeVars == <<evaluation_prompt, evaluation, lines, lineno, p, record>>

docVars == <<pdf_path, extract_out, extracted_text, pd_ret, loads>>

NoFile == [exists |-> FALSE, is_pdf |-> FALSE, pages |-> <<>>, fail_page |-> 0]

\* no answer_question call has been made
NoCall == [kind |-> "no call", value |-> None, exc |-> "none"]

\* answer_question is running
Pending == [kind |-> "pending", value |-> None, exc |-> "none"]

NoRecord == [scores |-> EmptyDict, strengths |-> <<>>, improvements |-> <<>>,
             comments |-> <<>>, error |-> "no record"]

\* the SAPAnalyzer as constructed (lines 39-41), nothing called yet
InitFields ==
    /\ pdf_path = NoFile
    /\ extract_out = Return(None)
    /\ extracted_text = None
    /\ pd_ret = FALSE
    /\ question = <<>>
    /\ prompt_context = <<>>
    /\ n_tokens = 0
    /\ answer = None
    /\ evaluation_prompt = <<>>
    /\ evaluation = <<>>
    /\ lines = <<>>
    /\ lineno = 0
    /\ p = ParseLocals0
    /\ record = NoRecord
    /\ aq_ret = NoCall
    /\ printed = "nothing"
    /\ calls = <<>>
    /\ turns = 0
    /\ loads = 0

Init ==
    /\ caller \in {"main", "client"}
    /\ pc = caller
    /\ InitFields

InitJudge ==
    /\ caller = "judge"
    /\ pc = "evaluate_answer"
    /\ pdf_path = NoFile
    /\ extract_out = Return(None)
    /\ extracted_text = None
    /\ pd_ret = FALSE
    /\ question = <<"q","?">>
    /\ prompt_context = <<>>
    /\ n_tokens = 0
    /\ answer = <<"y","e","s">>
    /\ evaluation_prompt = <<>>
    /\ evaluation = <<>>
    /\ lines = <<>>
    /\ lineno = 0
    /\ p = ParseLocals0
    /\ record = NoRecord
    /\ aq_ret = NoCall
    /\ printed = "nothing"
    /\ calls = <<>>
    /\ turns = 0
    /\ loads = 0

\* what one answer_question call works on
turnVars == <<prompt_context, n_tokens, answer, evaluation_prompt, evaluation, lines, lineno, p,
              record, aq_ret,
              calls>>

\* a call of answer_question starts: nothing is bound and no call has been made
EnterAnswerQuestion ==
    /\ calls' = <<>>
    /\ answer' = None
    /\ prompt_context' = <<>>
    /\ n_tokens' = 0
    /\ evaluation_prompt' = <<>>
    /\ evaluation' = <<>> /\ lines' = <<>> /\ lineno' = 0 /\ p' = ParseLocals0
    /\ record' = NoRecord
    /\ aq_ret' = Pending

\* where answer_question returns to
ReturnPc == IF caller = "main" THEN "main_answered" ELSE "client"

\* the statements of answer_question and of what it calls
InTurn == {"answer_question", "generate", "evaluate_answer", "parse_loop", "evaluated"}

\* len(self.tokenizer.encode(context)) in a session: the ends of the range from the
\* end-of-sequence token alone to a token per character with two more
TokenCounts(context) == {1, Len(context) + 2}

(***************************************************************************)
(* main() and the callers of SAPAnalyzer                                   *)
(***************************************************************************)

\* main, lines 141-150: the checks of the path, then the analyzer is built
MainChecks ==
    /\ pc = "main"
    /\ \E f \in Files :
         /\ pdf_path' = f
         /\ IF ~f.exists
            THEN pc' = "returned" /\ printed' = "Error: PDF file not found"
            ELSE IF ~f.is_pdf
            THEN pc' = "returned" /\ printed' = "Error: The provided file is not a PDF."
            ELSE pc' = "process_document" /\ printed' = printed
    /\ UNCHANGED <<caller, extract_out, extracted_text, pd_ret, loads, question,
                   prompt_context, n_tokens, answer, judgeVars, aq_ret, calls, turns>>

\* a client calls process_document(pdf_path)
ClientProcessDocument ==
    /\ pc = "client"
    /\ loads < MaxLoads
    /\ \E f \in Files : pdf_path' = f
    /\ pc' = "process_document"
    /\ UNCHANGED <<caller, extract_out, extracted_text, pd_ret, loads, question,
                   prompt_context, n_tokens, answer, judgeVars, aq_ret, printed, calls, turns>>

\* SAPAnalyzer.process_document, lines 84-93
ProcessDocument ==
    /\ pc = "process_document"
    /\ \E o \in extract_text_from_pdf(pdf_path, max_chars_default) :
         /\ extract_out' = o
         /\ IF o.kind = "raise"
            THEN /\ extracted_text' = extracted_text
                 /\ pd_ret' = FALSE
                 /\ printed' = "Error processing document"
            ELSE /\ extracted_text' = o.value
                 /\ pd_ret' = Truthy(o.value)
                 /\ printed' = IF Truthy(o.value) THEN printed ELSE "Error processing document"
    /\ loads' = loads + 1
    /\ pc' = IF caller = "main" THEN "main_processed" ELSE "client"
    /\ UNCHANGED <<caller, pdf_path, question, prompt_context, n_tokens, answer, judgeVars,
                   aq_ret, calls, turns>>

\* main, lines 153-160
MainProcessed ==
    /\ pc = "main_processed"
    /\ IF ~pd_ret
       THEN pc' = "returned" /\ printed' = "Failed to process the document."
       ELSE pc' = "main_loop" /\ printed' = "=== Question Answering Mode ==="
    /\ UNCHANGED <<caller, docVars, question, prompt_context, n_tokens, answer, judgeVars,
                   aq_ret, calls, turns>>

\* main, lines 164-172: input() returns a line, or raises EOFError at the end of the
\* input, which nothing catches
MainInput ==
    /\ pc = "main_loop"
    /\ \/ /\ pc' = "crashed"
          /\ printed' = "Traceback: EOFError"
          /\ UNCHANGED <<question, turnVars>>
       \/ \E inp \in InputLines :
            /\ question' = Strip(inp)
            /\ IF Lower(question') = <<"e","x","i","t">>
               THEN /\ pc' = "terminated" /\ printed' = "Ending session. Goodbye!"
                    /\ UNCHANGED turnVars
               ELSE IF question' # <<>>
               THEN /\ turns < MaxTurns /\ pc' = "answer_question" /\ printed' = printed
                    /\ EnterAnswerQuestion
               ELSE /\ pc' = "main_loop" /\ printed' = printed
                    /\ UNCHANGED turnVars
    /\ UNCHANGED <<caller, docVars, turns>>

\* a client calls answer_question(question)
ClientAnswerQuestion ==
    /\ pc = "client"
    /\ turns < MaxTurns
    /\ \E q \in ClientQuestions : question' = q
    /\ pc' = "answer_question"
    /\ EnterAnswerQuestion
    /\ UNCHANGED <<caller, docVars, printed, turns>>

\* main, lines 172-176: what the loop does with what answer_question gave
MainAnswered ==
    /\ pc = "main_answered"
    /\ printed' = IF aq_ret.kind = "raise" THEN "Error answering question (logged)"
                  ELSE IF Truthy(aq_ret.value) THEN "answer" ELSE printed
    /\ pc' = "main_loop"
    /\ UNCHANGED <<caller, docVars, question, prompt_context, n_tokens, answer, judgeVars,
                   aq_ret, calls, turns>>

(***************************************************************************)
(* SAPAnalyzer.answer_question and AnswerJudge.evaluate_answer             *)
(***************************************************************************)

\* AqCheck without the test of extracted_text
AqCheck_NoCheck ==
    /\ pc = "answer_question"
    /\ turns' = turns + 1
    /\ aq_ret' = aq_ret /\ pc' = "generate"
    /\ UNCHANGED <<caller, docVars, question, printed, prompt_context, n_tokens, answer, judgeVars,
                   calls>>

\* answer_question, lines 95-98
AqCheck ==
    /\ pc = "answer_question"
    /\ turns' = turns + 1
    /\ IF ~Truthy(extracted_text)
       THEN aq_ret' = Raise("ValueError") /\ pc' = ReturnPc
       ELSE aq_ret' = aq_ret /\ pc' = "generate"
    /\ UNCHANGED <<caller, docVars, question, printed, prompt_context, n_tokens, answer, judgeVars,
                   calls>>

\* AqGenerate without the test of the answer
AqGenerate_NoEmptyCheck ==
    /\ pc = "generate"
    /\ \E n \in TokenCounts(IF Truthy(extracted_text) THEN extracted_text ELSE <<>>) :
         prompt_context' = <<>> /\ n_tokens' = n
    /\ calls' = Append(calls, "qa_pipe")
    /\ \/ /\ aq_ret' = Return(None)
          /\ printed' = "Error answering question"
          /\ pc' = ReturnPc
          /\ UNCHANGED answer
       \/ \E t \in QaTexts :
            /\ answer' = Strip(t)
            /\ printed' = printed
            /\ aq_ret' = aq_ret /\ pc' = "evaluate_answer"
    /\ UNCHANGED <<caller, docVars, question, judgeVars, turns>>

\* answer_question, lines 100-104 and 113-115, with _generate_qa_response (43-82)
AqGenerate ==
    /\ pc = "generate"
    /\ \E n \in TokenCounts(extracted_text) :
         /\ n_tokens' = n
         /\ prompt_context' = PromptContext(extracted_text, n, max_length, chunk_size)
    /\ calls' = Append(calls, "qa_pipe")
    /\ \/ /\ aq_ret' = Return(None)
          /\ printed' = "Error answering question"
          /\ pc' = ReturnPc
          /\ UNCHANGED answer
       \/ \E t \in QaTexts :
            /\ answer' = Strip(t)
            /\ printed' = printed
            /\ IF ~Truthy(answer')
               THEN aq_ret' = Return(FallbackMessage) /\ pc' = ReturnPc
               ELSE aq_ret' = aq_ret /\ pc' = "evaluate_answer"
    /\ UNCHANGED <<caller, docVars, question, judgeVars, turns>>

\* evaluate_answer, lines 33-53, up to the loop of _parse_evaluation (89-95); the
\* pipeline gives one of Texts or raises, whatever the prompt of line 36 is, and the
\* prompt is used for nothing else (CreateEvaluationPrompt builds it)
EvaluateAnswer(Texts) ==
    /\ pc = "evaluate_answer"
    /\ calls' = calls \o <<"evaluate_answer", "judge_pipe">>
    /\ \/ /\ record' = ErrorRecord("pipeline error")
          /\ printed' = "Error during evaluation"
          /\ pc' = "evaluated"
          /\ UNCHANGED <<evaluation, lines, lineno, p>>
       \/ \E t \in Texts :
            /\ evaluation' = t
            /\ lines' = Split(t, "\n")
            /\ lineno' = 0
            /\ p' = ParseLocals0
            /\ pc' = "parse_loop"
            /\ UNCHANGED <<record, printed>>
    /\ UNCHANGED <<caller, docVars, question, prompt_context, n_tokens, answer,
                   evaluation_prompt, aq_ret, turns>>

\* _parse_evaluation, lines 97-130: one iteration; an exception leaves the function
\* and is caught by evaluate_answer (45-53)
ParseLoop ==
    /\ pc = "parse_loop"
    /\ lineno < Len(lines)
    /\ lineno' = lineno + 1
    /\ p' = ParseLine(p, lines[lineno + 1])
    /\ IF p'.raised # "none"
       THEN /\ record' = ErrorRecord(p'.raised)
            /\ printed' = "Error during evaluation"
            /\ pc' = "evaluated"
       ELSE UNCHANGED <<record, printed, pc>>
    /\ UNCHANGED <<caller, docVars, question, prompt_context, n_tokens, answer,
                   evaluation_prompt, evaluation, lines,
                   aq_ret, calls, turns>>

\* _parse_evaluation, lines 132-137, and evaluate_answer's return of it (44)
ParseReturn ==
    /\ pc = "parse_loop"
    /\ lineno = Len(lines)
    /\ record' = ParseResult(p)
    /\ pc' = "evaluated"
    /\ UNCHANGED <<caller, docVars, question, prompt_context, n_tokens, answer,
                   evaluation_prompt, evaluation, lines,
                   lineno, p, aq_ret, printed, calls, turns>>

\* format_evaluation called on the record evaluate_answer returned on its own;
\* aq_ret holds what the call returns
FormatEvaluation ==
    /\ caller = "judge"
    /\ pc = "evaluated"
    /\ aq_ret' = Return(format_evaluation(record))
    /\ pc' = "formatted"
    /\ UNCHANGED <<caller, docVars, question, prompt_context, n_tokens, answer, judgeVars,
                   printed, calls, turns>>

\* answer_question, lines 108-112
AqFormat ==
    /\ pc = "evaluated"
    /\ caller # "judge"
    /\ calls' = Append(calls, "format_evaluation")
    /\ aq_ret' = Return(answer \o <<"\n">> \o format_evaluation(record))
    /\ pc' = ReturnPc
    /\ UNCHANGED <<caller, docVars, question, prompt_context, n_tokens, answer, judgeVars,
                   printed, turns>>

\* Interrupt with a KeyboardInterrupt that "except Exception" catches: inside
\* answer_question the turn reports an error and returns None
Interrupt_CaughtAsException ==
    /\ caller \in {"main", "client"}
    /\ \/ /\ caller = "main"
          /\ pc \in {"main_loop", "main_answered"}
          /\ pc' = "terminated"
          /\ printed' = "Session interrupted. Goodbye!"
          /\ UNCHANGED <<aq_ret, loads>>
       \/ /\ pc \in InTurn
          /\ pc' = ReturnPc
          /\ printed' = "Error answering question"
          /\ aq_ret' = Return(None)
          /\ UNCHANGED loads
       \/ /\ caller = "main"
          /\ pc \in {"process_document", "main_processed"}
          /\ pc' = "crashed"
          /\ printed' = "Traceback: KeyboardInterrupt"
          /\ UNCHANGED <<aq_ret, loads>>
       \/ /\ caller = "client"
          /\ pc = "process_document"
          /\ pc' = "client"
          /\ loads' = loads + 1
          /\ UNCHANGED <<printed, aq_ret>>
    /\ UNCHANGED <<caller, pdf_path, extract_out, extracted_text, pd_ret, question,
                   prompt_context, n_tokens, answer, judgeVars, calls, turns>>

\* KeyboardInterrupt is delivered.  "except Exception" does not catch it: inside
\* main's try (162-178) it ends the session with the farewell, before that nothing
\* catches it, and a client sees its call raise it.
Interrupt ==
    /\ caller \in {"main", "client"}
    /\ \/ /\ caller = "main"
          /\ pc \in InTurn \cup {"main_loop", "main_answered"}
          /\ pc' = "terminated"
          /\ printed' = "Session interrupted. Goodbye!"
          /\ aq_ret' = IF pc \in InTurn THEN Raise("KeyboardInterrupt") ELSE aq_ret
          /\ UNCHANGED loads
       \/ /\ caller = "main"
          /\ pc \in {"process_document", "main_processed"}
          /\ pc' = "crashed"
          /\ printed' = "Traceback: KeyboardInterrupt"
          /\ UNCHANGED <<aq_ret, loads>>
       \/ /\ caller = "client"
          /\ pc \in InTurn
          /\ pc' = "client"
          /\ aq_ret' = Raise("KeyboardInterrupt")
          /\ UNCHANGED <<printed, loads>>
       \/ /\ caller = "client"
          /\ pc = "process_document"
          /\ pc' = "client"
          /\ loads' = loads + 1
          /\ UNCHANGED <<printed, aq_ret>>
    /\ UNCHANGED <<caller, pdf_path, extract_out, extracted_text, pd_ret, question,
                   prompt_context, n_tokens, answer, judgeVars, calls, turns>>

(***************************************************************************)
(* Specifications                                                          *)
(***************************************************************************)

Next ==
    \/ MainChecks
    \/ ClientProcessDocument
    \/ ProcessDocument
    \/ MainProcessed
    \/ MainInput
    \/ ClientAnswerQuestion
    \/ MainAnswered
    \/ AqCheck
    \/ AqGenerate
    \/ EvaluateAnswer(SessionTexts)
    \/ ParseLoop
    \/ ParseReturn
    \/ AqFormat
    \/ Interrupt

\* a session: main(), or a client of SAPAnalyzer
Spec == Init /\ [][Next]_vars

NextJudge ==
    \/ EvaluateAnswer(JudgeTexts)
    \/ ParseLoop
    \/ ParseReturn
    \/ FormatEvaluation

\* evaluate_answer called on its own, with the evaluation texts of JudgeTexts
SpecJudge == InitJudge /\ [][NextJudge]_vars

NextTemplate ==
    \/ EvaluateAnswer(TemplateTexts)
    \/ ParseLoop
    \/ ParseReturn

\* the lengths of the contexts _generate_qa_response is given on its own
ContextLengths ==
    { 0, 1, chunk_size - 1, chunk_size, chunk_size + 1, 2 * chunk_size - 1, 2 * chunk_size,
      2 * chunk_size + 1, 3 * chunk_size + 5, max_chars_default }

\* the letters of those contexts
ContextLetters == <<"a","b","c","d","e","f","g">>

\* the context of length n whose i-th character is letter number (i * k) % 7
ContextOf(n, k) == [i \in 1..n |-> ContextLetters[((i * k) % 7) + 1]]

\* the contexts _generate_qa_response is given on its own
Contexts == { ContextOf(n, k) : n \in ContextLengths, k \in 1..3 }

\* what the tokenizer counts for them: around max_length, whatever their length
ContextTokenCounts == {0, max_length - 1, max_length, max_length + 1, 2 * max_length}

\* _generate_qa_response(question, context) is about to be called on its own, the
\* context held in extracted_text
InitContext ==
    /\ caller = "generator"
    /\ pc = "generate_qa"
    /\ pdf_path = NoFile
    /\ extract_out = Return(None)
    /\ extracted_text \in Contexts
    /\ pd_ret = FALSE
    /\ question = <<"q","?">>
    /\ prompt_context = <<>>
    /\ n_tokens = 0
    /\ answer = None
    /\ evaluation_prompt = <<>>
    /\ evaluation = <<>>
    /\ lines = <<>>
    /\ lineno = 0
    /\ p = ParseLocals0
    /\ record = NoRecord
    /\ aq_ret = NoCall
    /\ printed = "nothing"
    /\ calls = <<>>
    /\ turns = 0
    /\ loads = 0

\* _generate_qa_response, lines 45-47: the context the prompt will embed
GenerateQaResponse ==
    /\ caller = "generator"
    /\ pc = "generate_qa"
    /\ \E n \in ContextTokenCounts :
         /\ n_tokens' = n
         /\ prompt_context' = PromptContext(extracted_text, n, max_length, chunk_size)
    /\ pc' = "prompt_built"
    /\ UNCHANGED <<caller, docVars, question, answer, judgeVars, aq_ret, printed, calls,
                   turns>>

\* _generate_qa_response called on its own, with the contexts of Contexts
SpecContext == InitContext /\ [][GenerateQaResponse]_vars

\* the contexts _create_evaluation_prompt is given on its own: none, the empty
\* text, texts
PromptContexts == { None, <<>>, <<"C","T","R">>, <<"S","A","P"," ","v","1">> }

\* _create_evaluation_prompt(question, answer, context) is about to be called on its
\* own, the context held in extracted_text
InitPrompt ==
    /\ caller = "prompter"
    /\ pc = "create_prompt"
    /\ pdf_path = NoFile
    /\ extract_out = Return(None)
    /\ extracted_text \in PromptContexts
    /\ pd_ret = FALSE
    /\ question \in { Strip(l) : l \in InputLines }
    /\ prompt_context = <<>>
    /\ n_tokens = 0
    /\ answer \in { Strip(a) : a \in QaTexts } \cup JudgeLines
    /\ evaluation_prompt = <<>>
    /\ evaluation = <<>>
    /\ lines = <<>>
    /\ lineno = 0
    /\ p = ParseLocals0
    /\ record = NoRecord
    /\ aq_ret = NoCall
    /\ printed = "nothing"
    /\ calls = <<>>
    /\ turns = 0
    /\ loads = 0

\* _create_evaluation_prompt, lines 55-85
CreateEvaluationPrompt ==
    /\ caller = "prompter"
    /\ pc = "create_prompt"
    /\ evaluation_prompt' = create_evaluation_prompt(question, answer, extracted_text)
    /\ pc' = "prompt_created"
    /\ UNCHANGED <<caller, docVars, question, prompt_context, n_tokens, answer, evaluation,
                   lines, lineno, p, record, aq_ret, printed, calls, turns>>

\* _create_evaluation_prompt called on its own
SpecPrompt == InitPrompt /\ [][CreateEvaluationPrompt]_vars

\* evaluate_answer called on its own, with the evaluation texts of TemplateTexts
SpecTemplate == InitJudge /\ [][NextTemplate]_vars

(***************************************************************************)
(* What the claims say of an evaluation text, read off the text itself     *)
(***************************************************************************)

ScoreLabels == Range(criteria) \cup {K_overall_score}

SectionLabels == {K_strengths, K_areas, K_comments}

AllowedScoreKeys == Range(criteria) \cup {K_overall}

\* line i of the text, trimmed
Trimmed(i) == Strip(lines[i])

\* line i is a content line: not blank, no colon
IsContentLine(i) == Trimmed(i) # <<>> /\ ~Contains(Trimmed(i), ":")

\* the key of line i, a line with a colon: the text before the first colon,
\* trimmed and lower-cased
KeyOfLine(i) == Lower(Strip(SplitOnce(Trimmed(i), ":")[1]))

\* the text of line i between the first colon and the first '/' after it
NumberTextOfLine(i) == Split(Strip(SplitOnce(Trimmed(i), ":")[2]), "/")[1]

IsScoreLine(i) == Contains(Trimmed(i), ":") /\ KeyOfLine(i) \in ScoreLabels

IsLabelLine(i) == Contains(Trimmed(i), ":") /\ KeyOfLine(i) \in SectionLabels

\* the key of scores a score line writes
ScoreKeyOfLine(i) ==
    LET key == KeyOfLine(i) IN IF key = K_overall_score THEN K_overall ELSE key

\* float() does not accept the number text of score line i
IsUnparseable(i) == FloatOfStr(NumberTextOfLine(i)).kind = "ValueError"

\* score line i is the last line for its key among the first n lines
IsLastForKey(i, n) ==
    LET key == ScoreKeyOfLine(i)
    IN  \A j \in (i + 1)..n : ~(IsScoreLine(j) /\ ScoreKeyOfLine(j) = key)

\* _parse_evaluation has returned its record
Parsed == pc = "evaluated" /\ "error" \notin DOMAIN record

(***************************************************************************)
(* Claims                                                                  *)
(***************************************************************************)

\* C1: _parse_evaluation never raises and returns its record only after the loop
\* has consumed every line; at every point of the loop, every score line read so
\* far has its key in scores, and a score line whose number text float() does not
\* accept (an empty one included), and that is the last line read for its key, has
\* the score 0.  ("Not a number" is read as "not accepted by float()": float()
\* accepts nan, inf and infinity, and those are stored as they are.)
C1_ParseNeverRaisesBadScoreIsZero ==
    /\ p.raised = "none"
    /\ pc = "evaluated" =>
         \/ record = ErrorRecord("pipeline error")
         \/ Parsed /\ lineno = Len(lines) /\ record = ParseResult(p)
    /\ pc \in {"parse_loop", "evaluated"} =>
         \A i \in 1..lineno :
            IsScoreLine(i) =>
               /\ ScoreKeyOfLine(i) \in DOMAIN p.scores
               /\ (IsUnparseable(i) /\ IsLastForKey(i, lineno))
                     => p.scores[ScoreKeyOfLine(i)] = IntZero

\* C1 witness: a record returned for a text whose unparseable score line, stored
\* as 0, is followed by a score line of another key that was stored as a float
C1_Witness ==
    /\ Parsed
    /\ \E i, j \in 1..Len(lines) :
         /\ i < j
         /\ IsScoreLine(i) /\ IsUnparseable(i)
         /\ IsScoreLine(j) /\ ~IsUnparseable(j)
         /\ ScoreKeyOfLine(i) # ScoreKeyOfLine(j)
         /\ record.scores[ScoreKeyOfLine(i)] = IntZero
         /\ record.scores[ScoreKeyOfLine(j)].kind = "float"

\* C2: the keys of scores are among the six rubric names and overall, in the
\* parser's dict at every point of the loop and in every record evaluate_answer
\* returns, the error record included
C2_ScoreKeysAllowed ==
    /\ DOMAIN p.scores \subseteq AllowedScoreKeys
    /\ DOMAIN record.scores \subseteq AllowedScoreKeys

\* C2 witness: a record with a score, returned for a text that has a line with a
\* colon whose key is no rubric name, no section label and not "overall score"
C2_Witness ==
    /\ Parsed
    /\ record.scores # EmptyDict
    /\ \E i \in 1..Len(lines) :
         /\ Contains(Trimmed(i), ":")
         /\ KeyOfLine(i) \notin ScoreLabels \cup SectionLabels

\* a numeric value in the range [0,5]
InZeroToFive(v) ==
    /\ v.kind \in {"int", "float"}
    /\ v.m = 0 \/ ~v.neg
    /\ IF v.e >= 0 THEN v.m * Pow10(v.e) <= 5 ELSE v.m <= 5 * Pow10(0 - v.e)

\* C3: every value of the scores of a record _parse_evaluation returns is a number
\* in the range [0,5]
C3_ScoresWithinZeroToFive ==
    Parsed => \A k \in DOMAIN record.scores : InZeroToFive(record.scores[k])

\* the section labels among the first n lines, as line numbers
LabelsBefore(n) == {j \in 1..n : IsLabelLine(j)}

\* the section a label key opens
SectionOfLabel(key) ==
    IF key = K_strengths THEN K_strengths
    ELSE IF key = K_areas THEN K_improvements
    ELSE K_comments

\* the section that is open when line i is read: that of the last section label
\* line before it, None when there is none
SectionAtLine(i) ==
    LET before == LabelsBefore(i - 1)
    IN  IF before = {} THEN None
        ELSE LET j == CHOOSE k \in before : \A l \in before : l <= k
             IN  SectionOfLabel(KeyOfLine(j))

RECURSIVE ContentOfSection(_, _)
\* the trimmed content lines among the first n lines that were read while section
\* was open, in the order of the text
ContentOfSection(section, n) ==
    IF n = 0 THEN <<>>
    ELSE ContentOfSection(section, n - 1)
         \o (IF IsContentLine(n) /\ SectionAtLine(n) = section THEN <<Trimmed(n)>> ELSE <<>>)

\* C5: a content line read before any section label line is dropped: while no
\* section label has been read the three lists are empty, and at every point the
\* lists together hold as many entries as content lines were read after a section
\* label, so that no later line brings a dropped one back
C5_ContentBeforeAnyLabelDropped ==
    pc \in {"parse_loop", "evaluated"} /\ record # ErrorRecord("pipeline error") =>
        /\ LabelsBefore(lineno) = {} =>
              p.strengths = <<>> /\ p.improvements = <<>> /\ p.comments = <<>>
        /\ Len(p.strengths) + Len(p.improvements) + Len(p.comments)
              = Cardinality({i \in 1..lineno : IsContentLine(i) /\ LabelsBefore(i - 1) # {}})
        /\ Parsed => /\ record.strengths = p.strengths
                     /\ record.improvements = p.improvements
                     /\ record.comments = p.comments

\* C5 witness: a record returned for a text with a content line before its first
\* section label and a content line after it
C5_Witness ==
    /\ Parsed
    /\ \E i, j \in 1..Len(lines) :
         /\ i < j
         /\ IsContentLine(i) /\ LabelsBefore(i - 1) = {}
         /\ IsContentLine(j) /\ LabelsBefore(j - 1) # {}
    /\ Len(record.strengths) + Len(record.improvements) + Len(record.comments) = 1

\* C6: each of strengths, improvements and comments is the sequence, in the order
\* of the text, of the trimmed content lines read while its section was open
C6_ListsAreSectionContentInOrder ==
    /\ pc \in {"parse_loop", "evaluated"} /\ record # ErrorRecord("pipeline error") =>
         /\ p.strengths = ContentOfSection(K_strengths, lineno)
         /\ p.improvements = ContentOfSection(K_improvements, lineno)
         /\ p.comments = ContentOfSection(K_comments, lineno)
    /\ Parsed =>
         /\ record.strengths = ContentOfSection(K_strengths, Len(lines))
         /\ record.improvements = ContentOfSection(K_improvements, Len(lines))
         /\ record.comments = ContentOfSection(K_comments, Len(lines))

\* C6 witness: a record one of whose lists holds two different lines, the second
\* of which had white space around it in the text
C6_Witness ==
    /\ Parsed
    /\ \E l \in {record.strengths, record.improvements, record.comments} :
         /\ Len(l) = 2
         /\ l[1] # l[2]
         /\ \E i \in 1..Len(lines) : lines[i] # l[2] /\ Trimmed(i) = l[2]

\* the keys the seven score labels of the template are stored under, in its order
TemplateKeys ==
    <<K_relevance, K_accuracy, K_completeness, K_clarity, K_specificity,
      K_documentation, K_overall>>

\* the numeric literal written on the line of the text that carries label k
WrittenNumber(k) ==
    CHOOSE n \in TemplateNumbers :
        \E i \in 1..Len(lines) : \E c \in LetterCases :
            Trimmed(i) = TemplateLine(TemplateLabels[k], c, n.lit)

\* the stored score v is the number m * 10^e
IsNumber(v, m, e) == v.kind = "float" /\ ~v.neg /\ v.m = m /\ v.e = e

\* C4: for a text that follows the template, scores has exactly the seven keys,
\* each with the number written on its line
C4_TemplateScoresRecovered ==
    Parsed =>
        /\ DOMAIN record.scores = Range(TemplateKeys)
        /\ \A k \in 1..Len(TemplateKeys) :
              LET n == WrittenNumber(k)
              IN  IsNumber(record.scores[TemplateKeys[k]], n.m, n.e)

\* C4 witness: a record returned for a template text in upper case, indented, in
\* the reverse order, with two different numbers, one of them with a fraction
C4_Witness ==
    /\ Parsed
    /\ Trimmed(1) # lines[1]
    /\ Trimmed(1) = TemplateLine(TemplateLabels[7], "upper", <<"3",".","7","5">>)
    /\ IsNumber(record.scores[K_overall], 375, 0 - 2)
    /\ IsNumber(record.scores[K_relevance], 5, 0)

\* a document is loaded
DocumentLoaded == Truthy(extracted_text)

\* C7: extracted_text becomes a loaded document only in a process_document call
\* whose extraction returned non-empty text, and that call returns True; a call
\* whose extraction returned None or empty text, or raised, returns False and
\* leaves a session without a document without one; with no document loaded
\* answer_question raises ValueError and makes no call, and the statements that
\* generate and judge the answer are reached only with a document loaded
C7_QuestionsNeedLoadedDocument ==
    /\ [](pc \in InTurn \ {"answer_question"} => DocumentLoaded)
    /\ [][(~DocumentLoaded /\ DocumentLoaded') =>
             /\ ProcessDocument
             /\ pd_ret'
             /\ extract_out'.kind = "return" /\ Truthy(extract_out'.value)
             /\ extracted_text' = extract_out'.value]_vars
    /\ [][(ProcessDocument /\ (extract_out'.kind = "raise" \/ ~Truthy(extract_out'.value))) =>
             /\ ~pd_ret'
             /\ ~DocumentLoaded => ~DocumentLoaded']_vars
    /\ [][(AqCheck /\ ~DocumentLoaded) =>
             /\ aq_ret' = Raise("ValueError")
             /\ calls = <<>> /\ calls' = <<>>
             /\ pc' = ReturnPc]_vars

\* C7 witness: a client whose process_document call failed because the extraction
\* raised, and whose answer_question call then raised ValueError without any call
C7_Witness ==
    /\ caller = "client" /\ pc = "client"
    /\ loads > 0 /\ ~pd_ret /\ extract_out.kind = "raise"
    /\ ~DocumentLoaded
    /\ aq_ret = Raise("ValueError") /\ calls = <<>>

\* the calls of a turn that runs to its end
TurnCalls == <<"qa_pipe", "evaluate_answer", "judge_pipe", "format_evaluation">>

\* C8: the calls of a turn are a prefix of: the answer generation, evaluate_answer,
\* its generation, format_evaluation; evaluate_answer is called only with a
\* non-empty stripped answer; a turn whose answer is empty returns the fallback
\* message after the answer generation alone; and main reads a question only when
\* no answer_question call is under way
C8_TurnCallsInOrder ==
    /\ Len(calls) <= Len(TurnCalls) /\ calls = SubSeq(TurnCalls, 1, Len(calls))
    /\ Len(calls) >= 2 => Truthy(answer)
    /\ answer = <<>> =>
          /\ aq_ret = Return(FallbackMessage)
          /\ calls = <<"qa_pipe">>
          /\ pc \notin InTurn
    /\ (caller = "main" /\ pc = "main_loop") => aq_ret.kind \in {"no call", "return", "raise"}

\* C8 witness: main back at its prompt after a second turn, which gave the fallback
\* message for an empty answer
C8_Witness ==
    /\ caller = "main" /\ pc = "main_loop"
    /\ turns = 2
    /\ answer = <<>>
    /\ aq_ret = Return(FallbackMessage)
    /\ calls = <<"qa_pipe">>

\* evaluate_answer returned the record of a failed generation
EvaluationFailed == "error" \in DOMAIN record /\ record # NoRecord

\* C9: when the evaluation generation raises, evaluate_answer returns a record with
\* no scores, empty lists and an error field, the turn goes on, and what it returns
\* is the answer, one newline and the header line of the evaluation alone
C9_EvaluationFailureKeepsAnswer ==
    EvaluationFailed =>
        /\ record.scores = EmptyDict
        /\ record.strengths = <<>> /\ record.improvements = <<>> /\ record.comments = <<>>
        /\ Truthy(answer)
        /\ pc = "evaluated" => aq_ret = Pending /\ Len(calls) = 3
        /\ Len(calls) = Len(TurnCalls) =>
              aq_ret = Return(answer \o <<"\n">> \o EvaluationHeader)

\* C9 witness: a turn that returned an answer after its evaluation generation raised
\* and format_evaluation was called
C9_Witness ==
    /\ EvaluationFailed
    /\ calls = TurnCalls
    /\ aq_ret.kind = "return" /\ Truthy(aq_ret.value)

\* the statements of main's loop and of the turns it runs
LoopPcs == InTurn \cup {"main_loop", "main_answered"}

\* C10: a failure in a turn ends only the turn: after answer_question returned or
\* raised, main is back at its prompt; main leaves its loop only by the exit word
\* or an interrupt, with the farewell; and a turn whose answer generation raised
\* returns None after that call alone, having reported the error
C10_OnlyExitOrInterruptEndsLoop ==
    /\ [][(caller = "main" /\ pc = "main_answered") => pc' \in {"main_loop", "terminated"}]_vars
    /\ [][(caller = "main" /\ pc \in LoopPcs /\ pc' \notin LoopPcs) =>
             /\ pc' = "terminated"
             /\ printed' \in {"Ending session. Goodbye!", "Session interrupted. Goodbye!"}]_vars
    /\ [][(AqGenerate /\ answer' = None) =>
             /\ aq_ret' = Return(None)
             /\ printed' = "Error answering question"
             /\ calls' = <<"qa_pipe">>]_vars

\* C11: in main's loop, an input line that trimmed and lower-cased is "exit" ends
\* the session with the farewell; an interrupt can arrive at every statement of the
\* loop and of the turn it runs, and ends the session with the farewell, nothing
\* uncaught; and after the session has ended nothing more happens
C11_ExitAndInterruptTerminate ==
    /\ [][(MainInput /\ pc' # "crashed" /\ Lower(question') = <<"e","x","i","t">>) =>
             /\ pc' = "terminated"
             /\ printed' = "Ending session. Goodbye!"
             /\ turns' = turns]_vars
    /\ [](caller = "main" /\ pc \in LoopPcs => ENABLED Interrupt)
    /\ [][(caller = "main" /\ pc \in LoopPcs /\ Interrupt) =>
             /\ pc' = "terminated"
             /\ printed' = "Session interrupted. Goodbye!"]_vars
    /\ [][pc # "terminated"]_vars

\* C11 witness: a session ended with the farewell by an interrupt that arrived in
\* its second turn, after the answer was generated and before the turn returned
C11_Witness ==
    /\ caller = "main" /\ pc = "terminated"
    /\ printed = "Session interrupted. Goodbye!"
    /\ aq_ret = Raise("KeyboardInterrupt")
    /\ Truthy(answer)
    /\ turns = 2

\* format_evaluation has returned the text of a record of _parse_evaluation
Formatted == caller = "judge" /\ pc = "formatted" /\ "error" \notin DOMAIN record

\* the lines of a text format_evaluation returned
OutLines(text) == Split(text, "\n")

\* s starts with pre
HasPrefix(s, pre) == Len(s) >= Len(pre) /\ SubSeq(s, 1, Len(pre)) = pre

\* the lines of the output out that start with pre
LinesWithPrefix(out, pre) == {i \in DOMAIN out : HasPrefix(out[i], pre)}

\* the score line "<Label>: <score>/5"
ScoreLine(label, v) == label \o <<":", " ">> \o ScoreRepr(v) \o <<"/", "5">>

\* in the output out the score with the given label is shown, once and as stored,
\* iff it has key k
ScoreShownIff(out, label, k) ==
    LET at == LinesWithPrefix(out, label \o <<":">>)
    IN  IF k \in DOMAIN record.scores
        THEN /\ Cardinality(at) = 1
             /\ \A i \in at : out[i] = ScoreLine(label, record.scores[k])
        ELSE at = {}

\* in the output out the section with the given label is shown iff items is not
\* empty: its label once, then one "- item" line per item in the order of items,
\* then the section ends
SectionShownIff(out, label, items) ==
    LET at == {i \in DOMAIN out : out[i] = label}
    IN  IF items = <<>> THEN at = {}
        ELSE /\ Cardinality(at) = 1
             /\ \A i \in at :
                  /\ i + Len(items) <= Len(out)
                  /\ \A k \in DOMAIN items : out[i + k] = <<"-", " ">> \o items[k]
                  /\ i + Len(items) < Len(out) => out[i + Len(items) + 1] = <<>>

\* C12: the text format_evaluation gives for a record of _parse_evaluation shows
\* the score of a criterion iff the criterion is a key of scores (one without a key
\* is left out, not shown as 0), the criteria in the order of the rubric, the
\* overall score iff "overall" is a key, and each of the three sections iff its
\* list is not empty, with one "- " line per item in the order of the list
C12_FormatShowsWhatRecordHolds ==
    Formatted =>
        LET out == OutLines(aq_ret.value)
            at(j) == LinesWithPrefix(out, Capitalize(criteria[j]) \o <<":">>)
        IN  /\ \A j \in DOMAIN criteria :
                  ScoreShownIff(out, Capitalize(criteria[j]), criteria[j])
            /\ \A j1, j2 \in DOMAIN criteria :
                  (j1 < j2 /\ criteria[j1] \in DOMAIN record.scores
                           /\ criteria[j2] \in DOMAIN record.scores) =>
                    \A i1 \in at(j1) : \A i2 \in at(j2) : i1 < i2
            /\ ScoreShownIff(out, <<"O","v","e","r","a","l","l"," ","S","c","o","r","e">>,
                             K_overall)
            /\ SectionShownIff(out, <<"S","t","r","e","n","g","t","h","s",":">>,
                               record.strengths)
            /\ SectionShownIff(out, <<"A","r","e","a","s"," ","f","o","r"," ","I","m","p","r",
                                      "o","v","e","m","e","n","t",":">>, record.improvements)
            /\ SectionShownIff(out, <<"C","o","m","m","e","n","t","s",":">>, record.comments)
            /\ Cardinality(LinesWithPrefix(out, <<"-", " ">>)) =
                 Len(record.strengths) + Len(record.improvements) + Len(record.comments)

\* C12 witness: the text of a record that was given accuracy before relevance and
\* has both, has no clarity and no overall score, and whose lists are empty
C12_Witness ==
    /\ Formatted
    /\ lines[1] = <<" "," ","a","c","c","u","r","a","c","y"," ",":"," ","4",".","5","/","5"," ">>
    /\ DOMAIN record.scores = {K_relevance, K_accuracy}
    /\ record.strengths = <<>>
    /\ Len(OutLines(aq_ret.value)) = 4

\* the text of a record with a score, a section of two items and two empty sections
C12_WitnessSection ==
    /\ Formatted
    /\ Len(record.strengths) = 2
    /\ record.comments = <<>>

\* the list of the locals q that the section holds
SectionList(q, section) ==
    IF section = K_strengths THEN q.strengths
    ELSE IF section = K_improvements THEN q.improvements
    ELSE q.comments

\* the loop of _parse_evaluation reads its next line and goes on
ReadsLine == pc = "parse_loop" /\ pc' = "parse_loop" /\ lineno' = lineno + 1

\* C13: reading a line changes current_section only when the line has a colon and
\* its key, trimmed and lower-cased, is one of the three section labels, and then
\* to the section of that label; a blank line, a content line, a line with another
\* key and a score line leave it as it was, and a content line read while a
\* section is open is appended to the list of that section
C13_OnlyLabelsChangeSection ==
    /\ [][ReadsLine =>
             p'.current_section =
                IF IsLabelLine(lineno') THEN SectionOfLabel(KeyOfLine(lineno'))
                ELSE p.current_section]_vars
    /\ [][(ReadsLine /\ IsContentLine(lineno') /\ p.current_section # None) =>
             SectionList(p', p.current_section) =
                Append(SectionList(p, p.current_section), Trimmed(lineno'))]_vars

\* C13 witness: a text whose first line opens a section, whose second line writes
\* a score and whose third line, a content line, was filed under that section
C13_Witness ==
    /\ Parsed
    /\ Len(lines) = 3
    /\ IsLabelLine(1) /\ IsScoreLine(2) /\ IsContentLine(3)
    /\ SectionList(record, SectionOfLabel(KeyOfLine(1))) = <<Trimmed(3)>>

\* the text line i carries after its first colon, trimmed
InlineTextOfLine(i) == Strip(SplitOnce(Trimmed(i), ":")[2])

\* the three lists of the locals q
ListsOf(q) == <<q.strengths, q.improvements, q.comments>>

\* C14: reading a line that contains a colon leaves the three lists as they were,
\* be it a section label line with text after the colon or a line with a colon
\* read while a section is open; so no entry of a list contains a colon
C14_ColonLinesAddNoContent ==
    /\ [][(ReadsLine /\ Contains(lines[lineno'], ":")) => ListsOf(p') = ListsOf(p)]_vars
    /\ [](\A j \in 1..3 : \A k \in DOMAIN ListsOf(p)[j] : ~Contains(ListsOf(p)[j][k], ":"))
    /\ [](Parsed => ListsOf(record) = ListsOf(p))

\* C14 witness: a text whose first line is a section label with text after the
\* colon, whose second line has a colon and another key, and whose third line, a
\* content line, is the only entry of the section
C14_Witness ==
    /\ Parsed
    /\ Len(lines) = 3
    /\ IsLabelLine(1) /\ InlineTextOfLine(1) # <<>>
    /\ Contains(lines[2], ":") /\ ~IsLabelLine(2) /\ ~IsScoreLine(2)
    /\ IsContentLine(3)
    /\ ListsOf(record) = <<<<Trimmed(3)>>, <<>>, <<>>>>

\* C15: once a document is loaded, extracted_text is never changed again: no step
\* of a turn and no later process_document call, whether it succeeds or fails,
\* replaces or clears it, so questions are never rejected again
C15_ExcerptNeverChanges ==
    [][DocumentLoaded => extracted_text' = extracted_text]_vars

\* _generate_qa_response has fixed the context of its prompt
PromptBuilt == caller = "generator" /\ pc = "prompt_built"

\* C16: when the tokenizer counts more than max_length tokens, the context of the
\* prompt is the first chunk_size characters of the context, a space and the
\* characters after them up to the first 2 * chunk_size (the context itself when it
\* has at most chunk_size characters), never more than 2 * chunk_size + 1
\* characters; when it counts at most max_length the context is embedded as it is
C16_ContextCutToTwoChunks ==
    PromptBuilt =>
        LET context == extracted_text
            n       == Len(context)
        IN  IF n_tokens > max_length
            THEN /\ prompt_context =
                      IF n <= chunk_size THEN context
                      ELSE SubSeq(context, 1, chunk_size) \o <<" ">>
                           \o SubSeq(context, chunk_size + 1,
                                  IF n < 2 * chunk_size THEN n ELSE 2 * chunk_size)
                 /\ Len(prompt_context) <= 2 * chunk_size + 1
            ELSE prompt_context = context

\* C16 witness: a context of more than two chunks, counted as more than max_length
\* tokens, was cut to two chunks and the space between them
C16_Witness ==
    /\ PromptBuilt
    /\ n_tokens > max_length
    /\ Len(extracted_text) > 2 * chunk_size
    /\ Len(prompt_context) = 2 * chunk_size + 1
    /\ prompt_context[chunk_size + 1] = " "

RECURSIVE PageConcat(_, _)
\* the texts of the first n pages that have one, each followed by a newline
PageConcat(pages, n) ==
    IF n = 0 THEN <<>>
    ELSE PageConcat(pages, n - 1)
         \o (IF Truthy(pages[n]) THEN pages[n] \o <<"\n">> ELSE <<>>)

\* the last extract_text_from_pdf call was given the file pdf_path and has ended
Extracted == loads > 0 /\ pc # "process_document"

\* C17: extract_text_from_pdf never raises; it returns None or a non-empty text of
\* at most max_chars characters that is a prefix of the texts of the pages that
\* have one, in page order, each followed by a newline; and it returns None when
\* the path does not exist, when no page has text and when pdfplumber raises
C17_ExtractReturnsNoneOrCappedPrefix ==
    Extracted =>
        /\ extract_out.kind = "return"
        /\ extract_out.value # None =>
              /\ extract_out.value # <<>>
              /\ Len(extract_out.value) <= max_chars_default
              /\ HasPrefix(PageConcat(pdf_path.pages, Len(pdf_path.pages)), extract_out.value)
        /\ (\/ ~pdf_path.exists
            \/ pdf_path.fail_page > 0
            \/ PageConcat(pdf_path.pages, Len(pdf_path.pages)) = <<>>) =>
              extract_out = Return(None)

\* what score line i stores: the number float() reads in its number text, 0 when
\* float() does not accept it
WrittenScore(i) ==
    LET v == FloatOfStr(NumberTextOfLine(i)) IN IF v.kind = "ValueError" THEN IntZero ELSE v

\* the score lines among the first n lines
ScoreLinesBefore(n) == {i \in 1..n : IsScoreLine(i)}

\* C18: the scores of the record returned have exactly the keys of the score
\* lines of the text, at most seven, and under each key what the last of the lines
\* of that key stores: its number, or 0 when float() does not accept its number
\* text, whatever an earlier line of the key held
C18_LastScoreLineWins ==
    Parsed =>
        LET n == Len(lines)
        IN  /\ DOMAIN record.scores = {ScoreKeyOfLine(i) : i \in ScoreLinesBefore(n)}
            /\ Cardinality(DOMAIN record.scores) <= 7
            /\ \A i \in ScoreLinesBefore(n) :
                  IsLastForKey(i, n) => record.scores[ScoreKeyOfLine(i)] = WrittenScore(i)

\* C18 witness: a record for a text whose first line gives a key a number, whose
\* second line gives the same key a text float() does not accept and whose third
\* line gives it another number, which is the score of the key
C18_Witness ==
    /\ Parsed
    /\ Len(lines) = 3
    /\ \A i \in 1..3 : IsScoreLine(i) /\ ScoreKeyOfLine(i) = K_relevance
    /\ ~IsUnparseable(1) /\ IsUnparseable(2) /\ ~IsUnparseable(3)
    /\ WrittenScore(1) # WrittenScore(3)
    /\ record.scores = DictSet(EmptyDict, K_relevance, WrittenScore(3))

\* a record for a text whose last line for a key, after a line with a number, holds
\* a text float() does not accept: the score of the key is 0
C18_WitnessZero ==
    /\ Parsed
    /\ Len(lines) = 2
    /\ \A i \in 1..2 : IsScoreLine(i) /\ ScoreKeyOfLine(i) = K_overall
    /\ ~IsUnparseable(1) /\ IsUnparseable(2)
    /\ record.scores[K_overall] = IntZero

\* _create_evaluation_prompt has returned its prompt
PromptCreated == caller = "prompter" /\ pc = "prompt_created"

\* the lines of the prompt
PromptLines == Split(evaluation_prompt, "\n")

\* the line of the prompt that is text after white space, the first one
LineOf(text) == CHOOSE i \in DOMAIN PromptLines :
                    /\ Strip(PromptLines[i]) = text
                    /\ \A j \in 1..(i - 1) : Strip(PromptLines[j]) # text

\* the prompt has a line that is text after white space
HasLine(text) == \E i \in DOMAIN PromptLines : Strip(PromptLines[i]) = text

\* C19: the prompt has, in this order, the question line, the answer line, the
\* context line, the six criteria as "<Criterion> (1-5): <description>" in the order
\* of the rubric and the lines of the output format; and without a context the
\* context line is left out whole: after the answer line comes what comes after
\* the context line when there is one, the one empty line before the criteria
\* preamble, and no line of white space in its place
C19_PromptPartsAndNoContextLine ==
    PromptCreated =>
        LET qline == <<"Q","u","e","s","t","i","o","n",":"," ">> \o question
            aline == <<"A","n","s","w","e","r",":"," ">> \o answer
            cline == <<"C","o","n","t","e","x","t",":"," ">> \o extracted_text
            pre   == <<"P","l","e","a","s","e"," ","e","v","a","l","u","a","t","e"," ","b","a",
                       "s","e","d"," ","o","n"," ","t","h","e","s","e"," ","c","r","i","t","e",
                       "r","i","a",":">>
            crit(j) == Capitalize(criteria[j]) \o <<" ","(","1","-","5",")",":"," ">>
                       \o criteria_descriptions[j]
            q == LineOf(Strip(qline))
            a == q + 1
            n == IF Truthy(extracted_text) THEN a + 1 ELSE a
        IN  /\ HasLine(Strip(qline))
            /\ a <= Len(PromptLines) /\ Strip(PromptLines[a]) = Strip(aline)
            /\ Truthy(extracted_text) => Strip(PromptLines[a + 1]) = Strip(cline)
            /\ n + 2 <= Len(PromptLines)
            /\ PromptLines[n + 1] = <<>>
            /\ Strip(PromptLines[n + 2]) = pre
            /\ \A j \in DOMAIN criteria : PromptLines[n + 3 + j] = crit(j)
            /\ \A k \in DOMAIN PromptFormatLines :
                  Strip(PromptLines[n + 3 + Len(criteria) + 2 + k]) = PromptFormatLines[k]

=============================================================================
